---- MODULE Spec2Model ----
(***************************************************************************)
(* Plunge: copy newer files of corresponding names from SOURCE into DEST.  *)
(* Pathnames are sequences of one-character strings, the filesystem is a   *)
(* function from absolute pathnames to nodes, and every function of        *)
(* plunge.c, jb.c and path.c is an operator or an action of this module.   *)
(***************************************************************************)
EXTENDS Integers, Sequences, FiniteSets, TLC

\* ------------------------------------------------------------------ bounds
\* Number of lines on standard input.
MaxLines == 2
\* Largest modification time of a file before the run.
MaxTime == 2
\* Largest file size before the run.
MaxSize == 1

\* ------------------------------------------------------------- characters
JB_PATH_SEPARATOR == "/"
NL == "\n"
isspace(c) == c \in {" ", "\n", "\t", "\r"}

SetMax(S) == CHOOSE x \in S : \A y \in S : y <= x
SetMin(S) == CHOOSE x \in S : \A y \in S : x <= y

\* ---------------------------------------------------------------- jb_trim
\* The trailing loop runs i = n-1 down to 1 (C indices) and never tests
\* s[0]; the terminator is then put right after the last character kept.
jb_trim(s) ==
  LET n    == Len(s)
      back == {j \in 2..n : ~isspace(s[j])}
      m    == IF back = {} THEN 1 ELSE SetMax(back)
      t    == SubSeq(s, 1, m)
      fwd  == {j \in 1..m : ~isspace(t[j])}
      b    == IF fwd = {} THEN m + 1 ELSE SetMin(fwd)
  IN  SubSeq(t, b, m)

path_build_dupsep(dir, rel) == dir \o <<JB_PATH_SEPARATOR>> \o rel

path_build(dir, rel) ==
  IF dir[Len(dir)] # JB_PATH_SEPARATOR
  THEN dir \o <<JB_PATH_SEPARATOR>> \o rel
  ELSE dir \o rel

\* ------------------------------------------------------------- filesystem
SrcRoot == <<"/", "s">>
DstRoot == <<"/", "t">>
RelA  == <<"a">>
RelD  == <<"d">>
RelDC == <<"d", "/", "c">>
\* A name that no file of either tree has.
RelZ  == <<"z">>
RelPaths == {RelA, RelDC}

SrcNodes == {path_build(SrcRoot, p) : p \in {RelA, RelD, RelDC}}
DstNodes == {path_build(DstRoot, p) : p \in {RelA, RelD, RelDC}}
Nodes == SrcNodes \cup DstNodes

NoNode  == [kind |-> "none", size |-> 0, mtime |-> 0, data |-> "-"]
DirNode == [kind |-> "dir",  size |-> 0, mtime |-> 0, data |-> "-"]
FileNode(sz, mt, d) == [kind |-> "file", size |-> sz, mtime |-> mt, data |-> d]

\* dirname(3): the pathname up to, not including, its last separator.
dirname(p) ==
  LET seps == {j \in 1..Len(p) : p[j] = JB_PATH_SEPARATOR}
      k    == IF seps = {} THEN 0 ELSE SetMax(seps)
  IN  IF k = 0 THEN <<".">>
      ELSE IF k = 1 THEN <<JB_PATH_SEPARATOR>>
      ELSE SubSeq(p, 1, k - 1)

IsTop(p) == p \in {<<JB_PATH_SEPARATOR>>, <<".">>, SrcRoot, DstRoot}

\* stat(2): errno and, on success, the node. The two roots exist as
\* directories; a pathname through a non-directory fails with ENOTDIR.
RECURSIVE stat(_, _)
stat(f, p) ==
  IF IsTop(p) THEN [errno |-> "OK", node |-> DirNode]
  ELSE LET up == stat(f, dirname(p)) IN
       IF up.errno # "OK" THEN [errno |-> up.errno, node |-> NoNode]
       ELSE IF up.node.kind # "dir" THEN [errno |-> "ENOTDIR", node |-> NoNode]
       ELSE IF p \in DOMAIN f /\ f[p].kind # "none"
            THEN [errno |-> "OK", node |-> f[p]]
            ELSE [errno |-> "ENOENT", node |-> NoNode]

\* --------------------------------------------------------- compare_files
\* Mutant: a larger source is copied over a newer destination.
compare_times_larger(smt, dmt, ssz, dsz) ==
  IF smt = dmt THEN "SAME_AGE"
  ELSE IF smt < dmt /\ ssz <= dsz THEN "DST_NEWER"
  ELSE IF ssz > dsz THEN "SRC_LARGER" ELSE "SRC_NEWER"

\* Mutant: files of the same age are told apart by their sizes.
compare_times_size(smt, dmt, ssz, dsz) ==
  IF smt = dmt /\ ssz = dsz THEN "SAME_AGE"
  ELSE IF smt <= dmt THEN "DST_NEWER"
  ELSE IF ssz > dsz THEN "SRC_LARGER" ELSE "SRC_NEWER"

\* Mutant: the sizes are compared with >=.
compare_times_ge(smt, dmt, ssz, dsz) ==
  IF smt = dmt THEN "SAME_AGE"
  ELSE IF smt < dmt THEN "DST_NEWER"
  ELSE IF ssz >= dsz THEN "SRC_LARGER" ELSE "SRC_NEWER"

\* plunge.c 282-286: both files exist and are regular.
compare_times(smt, dmt, ssz, dsz) ==
  IF smt = dmt THEN "SAME_AGE"
  ELSE IF smt < dmt THEN "DST_NEWER"
  ELSE IF ssz > dsz THEN "SRC_LARGER" ELSE "SRC_NEWER"

\* The result, and the size and mtime stored through size_ptr and
\* mtime_ptr (set is FALSE while they are left unwritten).
compare_files(f, src, dst) ==
  LET ss == stat(f, src)
      ds == stat(f, dst)
      unset == [size |-> 0, mtime |-> 0, set |-> FALSE]
      got   == [size |-> ss.node.size, mtime |-> ss.node.mtime, set |-> TRUE]
  IN  IF ss.errno = "ENOENT" THEN [result |-> "SRC_NO_EXIST"] @@ unset
      ELSE IF ss.errno # "OK" THEN [result |-> "ERROR"] @@ unset
      ELSE IF ss.node.kind # "file" THEN [result |-> "SRC_NOT_FILE"] @@ unset
      ELSE IF ds.errno = "ENOENT" THEN [result |-> "DST_NO_EXIST"] @@ got
      ELSE IF ds.errno # "OK" THEN [result |-> "ERROR"] @@ got
      ELSE IF ds.node.kind # "file" THEN [result |-> "DST_NOT_FILE"] @@ got
      ELSE [result |-> compare_times(ss.node.mtime, ds.node.mtime,
                                     ss.node.size, ds.node.size)] @@ got

\* ------------------------------------------------------------ path_output
MAX_LINE_LENGTH == 78

RECURSIVE Fill(_, _)
Fill(c, k) == IF k <= 0 THEN <<>> ELSE <<c>> \o Fill(c, k - 1)

\* The dot leader with the dots moved one column.
RECURSIVE Leader_shifted(_, _)
Leader_shifted(n, width) ==
  IF n >= width THEN <<>>
  ELSE <<(IF (width - n) % 2 = 1 THEN "." ELSE " ")>> \o Leader_shifted(n + 1, width)

\* The dot leader from column n (C index) up to width.
RECURSIVE Leader(_, _)
Leader(n, width) ==
  IF n >= width THEN <<>>
  ELSE <<(IF (width - n) % 2 = 1 THEN " " ELSE ".")>> \o Leader(n + 1, width)

\* path_output keeping the tail from the separator found, however long.
path_output_noclamp(path, width) ==
  LET v == 3
      w == 6
      m == IF width < MAX_LINE_LENGTH THEN width - v ELSE width
      n == Len(path)
      seps == {x \in (w + 1)..(n - 1) : path[x + 1] = JB_PATH_SEPARATOR}
      i  == IF n - 1 <= w THEN n - 1
            ELSE IF seps = {} THEN w ELSE SetMax(seps)
      j  == n - i
      k  == m - j
      body == IF n > m
              THEN SubSeq(path, 1, k - v) \o Fill(".", v) \o SubSeq(path, i + 1, n)
              ELSE path
      len == IF n > m THEN m ELSE n
  IN  IF m < width THEN body \o Leader(len, width) ELSE body \o <<NL>>

\* The characters path_output hands to printf.
path_output(path, width) ==
  LET v == 3
      w == 6
      m == IF width < MAX_LINE_LENGTH THEN width - v ELSE width
      n == Len(path)
      seps == {x \in (w + 1)..(n - 1) : path[x + 1] = JB_PATH_SEPARATOR}
      i0 == IF n - 1 <= w THEN n - 1
            ELSE IF seps = {} THEN w ELSE SetMax(seps)
      i  == IF m - (n - i0) < w THEN n - m + w ELSE i0
      j  == n - i
      k  == m - j
      body == IF n > m
              THEN SubSeq(path, 1, k - v) \o Fill(".", v) \o SubSeq(path, i + 1, n)
              ELSE path
      len == IF n > m THEN m ELSE n
  IN  IF m < width THEN body \o Leader(len, width) ELSE body \o <<NL>>

\* ------------------------------------------------------- jb.c: file access
\* The wall clock while the program runs: later than every file's mtime.
Now == MaxTime + 1

\* The steps of copy_file at which the environment can make a call fail.
Fails == {"none", "read", "mkdir", "open", "write", "close", "utime"}

Put(f, p, node) == IF p \in DOMAIN f THEN [f EXCEPT ![p] = node] ELSE f @@ (p :> node)

\* jb_file_read: NULL (ok = FALSE) unless the file opens and yields size bytes.
jb_file_read(f, path, size, fail) ==
  LET st == stat(f, path) IN
  IF fail = "read" \/ st.errno # "OK" \/ st.node.kind # "file" \/ st.node.size < size
  THEN [ok |-> FALSE, data |-> "-"]
  ELSE [ok |-> TRUE, data |-> st.node.data]

\* make_directory: the parent of path exists afterwards, or r is nonzero.
RECURSIVE make_directory(_, _, _)
make_directory(f, path, fail) ==
  LET p  == dirname(path)
      st == stat(f, p)
  IN  IF Len(p) = 0 THEN [r |-> -1, fs |-> f]
      ELSE IF st.errno = "OK" THEN [r |-> 0, fs |-> f]
      ELSE IF st.errno # "ENOENT" THEN [r |-> -1, fs |-> f]
      ELSE LET up == make_directory(f, p, fail) IN
           IF up.r # 0 THEN [r |-> -1, fs |-> up.fs]
           ELSE IF fail = "mkdir" THEN [r |-> -1, fs |-> up.fs]
           ELSE [r |-> 0, fs |-> Put(up.fs, p, DirNode)]

\* jb_file_write: fopen "wb" creates or truncates the file; a short write
\* or a failed close leaves what was written.
jb_file_write(f, path, data, size, fail) ==
  LET md == make_directory(f, path, fail)
      up == stat(md.fs, dirname(path))
      me == stat(md.fs, path)
  IN  IF md.r # 0 THEN [r |-> -1, fs |-> md.fs]
      ELSE IF fail = "open" \/ up.errno # "OK" \/ up.node.kind # "dir"
              \/ (me.errno = "OK" /\ me.node.kind # "file")
           THEN [r |-> -1, fs |-> md.fs]
      ELSE IF fail = "write" /\ size > 0
           THEN [r |-> -1, fs |-> Put(md.fs, path, FileNode(0, Now, "partial"))]
      ELSE IF fail = "close"
           THEN [r |-> -1, fs |-> Put(md.fs, path, FileNode(size, Now, data))]
      ELSE [r |-> 0, fs |-> Put(md.fs, path, FileNode(size, Now, data))]

\* -------------------------------------------------------------- copy_file
\* Mutant: the destination keeps the time of the write.
copy_file_nostamp(f, src, dst, size, mtime, fail) ==
  LET rd == jb_file_read(f, src, size, fail)
      wr == jb_file_write(f, dst, rd.data, size, fail)
  IN  IF ~rd.ok THEN [fs |-> f, ok |-> FALSE]
      ELSE IF wr.r # 0 THEN [fs |-> wr.fs, ok |-> FALSE]
      ELSE [fs |-> wr.fs, ok |-> fail # "utime"]

\* A copy that removes the source once the destination is stamped.
copy_file_move(f, src, dst, size, mtime, fail) ==
  LET rd == jb_file_read(f, src, size, fail)
      wr == jb_file_write(f, dst, rd.data, size, fail)
  IN  IF ~rd.ok THEN [fs |-> f, ok |-> FALSE]
      ELSE IF wr.r # 0 THEN [fs |-> wr.fs, ok |-> FALSE]
      ELSE IF fail = "utime" THEN [fs |-> wr.fs, ok |-> FALSE]
      ELSE [fs |-> Put(Put(wr.fs, dst, [wr.fs[dst] EXCEPT !.mtime = mtime]), src, NoNode),
            ok |-> TRUE]

\* A copy that opens the destination for writing before it reads the source.
copy_file_open_first(f, src, dst, size, mtime, fail) ==
  LET rd == jb_file_read(f, src, size, fail)
      wr == jb_file_write(f, dst, rd.data, size, fail)
  IN  IF ~rd.ok THEN [fs |-> jb_file_write(f, dst, "-", 0, "none").fs, ok |-> FALSE]
      ELSE IF wr.r # 0 THEN [fs |-> wr.fs, ok |-> FALSE]
      ELSE IF fail = "utime" THEN [fs |-> wr.fs, ok |-> FALSE]
      ELSE [fs |-> Put(wr.fs, dst, [wr.fs[dst] EXCEPT !.mtime = mtime]), ok |-> TRUE]

\* The filesystem copy_file leaves, and whether every step succeeded.
copy_file(f, src, dst, size, mtime, fail) ==
  LET rd == jb_file_read(f, src, size, fail)
      wr == jb_file_write(f, dst, rd.data, size, fail)
  IN  IF ~rd.ok THEN [fs |-> f, ok |-> FALSE]
      ELSE IF wr.r # 0 THEN [fs |-> wr.fs, ok |-> FALSE]
      ELSE IF fail = "utime" THEN [fs |-> wr.fs, ok |-> FALSE]
      ELSE [fs |-> Put(wr.fs, dst, [wr.fs[dst] EXCEPT !.mtime = mtime]), ok |-> TRUE]

\* ------------------------------------------------------------------ state
VARIABLES
  fs,       \* the filesystem: absolute pathname -> node
  fs0,      \* the filesystem before the first run
  stdin,    \* the lines of standard input
  verbose,  \* options[0].is_present
  dry_run,  \* options[1].is_present
  a,        \* main's array of pathnames; a = <<>> is the NULL pointer
  i,        \* main's loop index
  n,        \* main's count of slots to process
  pc,       \* where main is: "read", "process", "exit", "crashed"
  run,      \* 1 for the first run of the program, 2 for the second
  faults,   \* the calls the environment has made fail so far
  log,      \* one record per call of process_file
  out,      \* the status lines written to standard output
  paths,    \* purge: the pathnames to skip (main's array after line 181)
  offset,   \* purge: where the output of a destination pathname begins
  stack,    \* purge: one frame per active call of purge_files
  handles,  \* purge: the directory handles that are open
  report,   \* purge: the lines path_output has printed
  unopened, \* purge: the directories that opendir has failed to open
  arg_path, \* path_output alone: its argument path
  arg_width,\* path_output alone: its argument width
  buffer,   \* path_output alone: what printf has written from s
  arg_dir,  \* path_build alone: its argument dir
  arg_rel,  \* path_build alone: its argument rel
  abs       \* path_build alone: the pathname received in abs

purgeVars == <<paths, offset, stack, handles, report, unopened>>
pathVars == <<arg_path, arg_width, buffer>>
buildVars == <<arg_dir, arg_rel, abs>>
vars == <<fs, fs0, stdin, verbose, dry_run, a, i, n, pc, run, faults, log, out,
          paths, offset, stack, handles, report, unopened, arg_path, arg_width, buffer,
          arg_dir, arg_rel, abs>>

\* The value of a slot of a that no assignment has written.
Uninit == <<"?">>

\* ----------------------------------------------------------- process_file
STR_TERSE_HEADING ==
  "                         Pathname                                 Status\n----------------------------------------------------------  ------------------"
STR_VERBOSE_HEADING ==
  "                     Pathname                             Status        Action\n--------------------------------------------------  ------------------  ------"

\* Mutant: the verbose messages are used in terse mode too.
message_all(result, v) ==
  CASE result = "ERROR"        -> "Error"
    [] result = "SRC_NO_EXIST" -> "Src not found. . . . Skip"
    [] result = "SRC_NOT_FILE" -> "Src not a file . . . Skip"
    [] result = "DST_NO_EXIST" -> IF v THEN "Dst not found. . . . Copy" ELSE "New"
    [] result = "DST_NOT_FILE" -> "Dst not a file . . . Skip"
    [] result = "SAME_AGE"     -> "Same age . . . . . . Skip"
    [] result = "DST_NEWER"    -> "Dst newer! . . . . . Skip"
    [] result = "SRC_LARGER"   -> IF v THEN "Src newer & larger . Copy" ELSE "Newer and larger"
    [] result = "SRC_NEWER"    -> IF v THEN "Src newer. . . . . . Copy" ELSE "Newer (not larger)"

\* The message p of the switch; "" is the NULL pointer.
message(result, v) ==
  CASE result = "ERROR"        -> IF v THEN "Error" ELSE ""
    [] result = "SRC_NO_EXIST" -> IF v THEN "Src not found. . . . Skip" ELSE ""
    [] result = "SRC_NOT_FILE" -> IF v THEN "Src not a file . . . Skip" ELSE ""
    [] result = "DST_NO_EXIST" -> IF v THEN "Dst not found. . . . Copy" ELSE "New"
    [] result = "DST_NOT_FILE" -> IF v THEN "Dst not a file . . . Skip" ELSE ""
    [] result = "SAME_AGE"     -> IF v THEN "Same age . . . . . . Skip" ELSE ""
    [] result = "DST_NEWER"    -> IF v THEN "Dst newer! . . . . . Skip" ELSE ""
    [] result = "SRC_LARGER"   -> IF v THEN "Src newer & larger . Copy" ELSE "Newer and larger"
    [] result = "SRC_NEWER"    -> IF v THEN "Src newer. . . . . . Copy" ELSE "Newer (not larger)"

\* Mutant: a missing destination is not created.
should_copy_existing(result) == result \in {"SRC_LARGER", "SRC_NEWER"}

\* The flag b of the switch.
should_copy(result) == result \in {"DST_NO_EXIST", "SRC_LARGER", "SRC_NEWER"}

\* Mutant: the dry-run flag is not looked at.
copies_always(b, dry) == b

\* plunge.c 238: whether copy_file is called.
copies(b, dry) == b /\ ~dry

DstTree(f) == [p \in DstNodes |-> f[p]]
SrcTree(f) == [p \in SrcNodes |-> f[p]]

\* What one call process_file(path, SrcRoot, DstRoot, flags) does to the
\* filesystem and prints, with the environment failing copy_file at fail.
process_file(f, path, v, dry, fail) ==
  LET j == MAX_LINE_LENGTH - 18
      k == MAX_LINE_LENGTH - 26
      r == path_build(SrcRoot, path)
      s == path_build(DstRoot, path)
      c == compare_files(f, r, s)
      p == message(c.result, v)
      b == should_copy(c.result)
      called == copies(b, dry)
      cp == IF called THEN copy_file(f, r, s, c.size, c.mtime, fail)
                      ELSE [fs |-> f, ok |-> FALSE]
  IN  [fs     |-> cp.fs,
       lines  |-> IF p # "" THEN << <<path_output(path, IF v THEN k ELSE j), p>> >>
                            ELSE <<>>,
       result |-> c.result,
       src    |-> stat(f, r),
       dst    |-> stat(f, s),
       called |-> called,
       ok     |-> cp.ok,
       failed |-> called /\ fail # "none" /\ ~cp.ok]

\* ------------------------------------------------------------------- main
\* The number of calls the environment makes fail in one execution.
MaxFaults == 1

\* The strings an indeterminate pointer may happen to point at.
Garbage == {RelA, RelZ}

\* plunge.c 139-142: continue runs the for loop's ++i, so a blank line
\* moves on to the next slot without filling this one.
slot_after(k) == k + 1

\* An array that receives each new pathname at its front.
store_front(arr, k, p) ==
  [x \in 1..(k + 1) |-> IF x = 1 THEN p
                        ELSE IF x - 1 <= Len(arr) THEN arr[x - 1] ELSE Uninit]

\* plunge.c 145-148: realloc to i + 1 pointers keeps the old ones, leaves
\* the added ones unwritten, and the last one is then assigned.
store(arr, k, p) ==
  [x \in 1..(k + 1) |-> IF x = k + 1 THEN p
                        ELSE IF x <= Len(arr) THEN arr[x] ELSE Uninit]

ReadLine ==
  /\ pc = "read"
  /\ i < Len(stdin)
  /\ LET p == jb_trim(stdin[i + 1]) IN
       IF Len(p) < 1
       THEN a' = a /\ i' = slot_after(i)
       ELSE a' = store(a, i, p) /\ i' = i + 1
  /\ UNCHANGED <<fs, fs0, stdin, verbose, dry_run, n, pc, run, faults, log, out>>
  /\ UNCHANGED purgeVars
  /\ UNCHANGED pathVars
  /\ UNCHANGED buildVars

\* fgets returns NULL: without any pathname main returns at once,
\* otherwise it prints the heading and starts the loop of line 173.
EndOfInput ==
  /\ pc = "read"
  /\ i = Len(stdin)
  /\ IF a = <<>>
     THEN pc' = "exit" /\ UNCHANGED <<i, n, out>>
     ELSE /\ pc' = "process"
          /\ n' = i
          /\ i' = 0
          /\ out' = Append(out, <<IF verbose THEN STR_VERBOSE_HEADING
                                             ELSE STR_TERSE_HEADING>>)
  /\ UNCHANGED <<fs, fs0, stdin, verbose, dry_run, a, run, faults, log>>
  /\ UNCHANGED purgeVars
  /\ UNCHANGED pathVars
  /\ UNCHANGED buildVars

Filled(arr, k) == k + 1 <= Len(arr) /\ arr[k + 1] # Uninit
AllSlotsFilled == \A k \in 0..(n - 1) : Filled(a, k)

\* A call of process_file that is made again when its copy has failed.
Call_retry(path, filled, fail) ==
  \E d \in {process_file(fs, path, verbose, dry_run, fail)} :
  /\ fail # "none" => d.failed /\ faults < MaxFaults
  /\ fs' = d.fs
  /\ faults' = IF d.failed THEN faults + 1 ELSE faults
  /\ out' = out \o d.lines
  /\ log' = Append(log, [run |-> run, slot |-> i, filled |-> filled, path |-> path,
                         result |-> d.result, src |-> d.src, dst |-> d.dst,
                         called |-> d.called, ok |-> d.ok, faulted |-> d.failed,
                         read |-> ~(d.failed /\ fail = "read"),
                         printed |-> d.lines # <<>>,
                         kept |-> DstTree(d.fs) = DstTree(fs),
                         after |-> stat(d.fs, path_build(DstRoot, path))])
  /\ i' = IF d.failed THEN i ELSE i + 1
  /\ UNCHANGED <<fs0, stdin, verbose, dry_run, a, n, pc, run>>
  /\ UNCHANGED purgeVars
  /\ UNCHANGED pathVars
  /\ UNCHANGED buildVars

\* One call of process_file from main's loop, and its record in the log.
Call(path, filled, fail) ==
  \E d \in {process_file(fs, path, verbose, dry_run, fail)} :
  /\ fail # "none" => d.failed /\ faults < MaxFaults
  /\ fs' = d.fs
  /\ faults' = IF d.failed THEN faults + 1 ELSE faults
  /\ out' = out \o d.lines
  /\ log' = Append(log, [run |-> run, slot |-> i, filled |-> filled, path |-> path,
                         result |-> d.result, src |-> d.src, dst |-> d.dst,
                         called |-> d.called, ok |-> d.ok, faulted |-> d.failed,
                         read |-> ~(d.failed /\ fail = "read"),
                         printed |-> d.lines # <<>>,
                         kept |-> DstTree(d.fs) = DstTree(fs),
                         after |-> stat(d.fs, path_build(DstRoot, path))])
  /\ i' = i + 1
  /\ UNCHANGED <<fs0, stdin, verbose, dry_run, a, n, pc, run>>
  /\ UNCHANGED purgeVars
  /\ UNCHANGED pathVars
  /\ UNCHANGED buildVars

\* plunge.c 173, a slot that a line filled.
ProcessFile ==
  /\ pc = "process"
  /\ i < n
  /\ Filled(a, i)
  /\ \E fail \in Fails : Call(a[i + 1], TRUE, fail)

\* plunge.c 173, a slot that no line filled (or one past the end of the
\* array): a[i] is indeterminate, and process_file reads whatever string
\* it happens to point at ...
ProcessUnfilled ==
  /\ pc = "process"
  /\ i < n
  /\ ~Filled(a, i)
  /\ \E g \in Garbage, fail \in Fails : Call(g, FALSE, fail)

\* ... or the program dies reading through it.
Crash ==
  /\ pc = "process"
  /\ i < n
  /\ ~Filled(a, i)
  /\ pc' = "crashed"
  /\ UNCHANGED <<fs, fs0, stdin, verbose, dry_run, a, i, n, run, faults, log, out>>
  /\ UNCHANGED purgeVars
  /\ UNCHANGED pathVars
  /\ UNCHANGED buildVars

\* plunge.c 186-194: the loop is over and main returns EXIT_SUCCESS.
Finish ==
  /\ pc = "process"
  /\ i = n
  /\ pc' = "exit"
  /\ UNCHANGED <<fs, fs0, stdin, verbose, dry_run, a, i, n, run, faults, log, out>>
  /\ UNCHANGED purgeVars
  /\ UNCHANGED pathVars
  /\ UNCHANGED buildVars

\* plunge.c 192: free(a[i]) of a slot that no line filled frees an
\* indeterminate pointer, which may stop the program as well.
FinishCrash ==
  /\ pc = "process"
  /\ i = n
  /\ \E k \in 0..(n - 1) : ~Filled(a, k)
  /\ pc' = "crashed"
  /\ UNCHANGED <<fs, fs0, stdin, verbose, dry_run, a, i, n, run, faults, log, out>>
  /\ UNCHANGED purgeVars
  /\ UNCHANGED pathVars
  /\ UNCHANGED buildVars

\* The program is started again with the same arguments and input.
Rerun ==
  /\ pc = "exit"
  /\ run = 1
  /\ run' = 2
  /\ a' = <<>>
  /\ i' = 0
  /\ n' = 0
  /\ faults' = 0
  /\ pc' = "read"
  /\ UNCHANGED <<fs, fs0, stdin, verbose, dry_run, log, out>>
  /\ UNCHANGED purgeVars
  /\ UNCHANGED pathVars
  /\ UNCHANGED buildVars

\* ------------------------------------------------------------------- Init
Lines == {<<" ", NL>>, <<"a", NL>>, <<" ", "d", "/", "c", NL>>}

RECURSIVE SeqsUpTo(_, _)
SeqsUpTo(S, k) ==
  IF k = 0 THEN {<<>>}
  ELSE LET T == SeqsUpTo(S, k - 1) IN
       T \cup {Append(q, x) : q \in {y \in T : Len(y) = k - 1}, x \in S}

Files(d) == {FileNode(sz, mt, d) : sz \in 0..MaxSize, mt \in 1..MaxTime}

Tree(sa, sd, sc, da, dd, dc) ==
  (path_build(SrcRoot, RelA) :> sa) @@ (path_build(SrcRoot, RelD) :> sd) @@
  (path_build(SrcRoot, RelDC) :> sc) @@ (path_build(DstRoot, RelA) :> da) @@
  (path_build(DstRoot, RelD) :> dd) @@ (path_build(DstRoot, RelDC) :> dc)

Old == FileNode(0, 1, "dst")
New == FileNode(MaxSize, MaxTime, "src")

\* Every state of the pair a, beside a file d/c to be copied into a new
\* directory; and the states of d and d/c, beside a pair a to be copied.
PairTrees ==
  {Tree(sa, DirNode, New, da, NoNode, NoNode) :
     sa \in Files("src") \cup {NoNode, DirNode},
     da \in Files("dst") \cup {NoNode, DirNode}}
  \cup
  {Tree(New, sd, NoNode, Old, dd, NoNode) :
     sd \in {NoNode, DirNode, FileNode(0, 1, "src")},
     dd \in {NoNode, DirNode, Old}}
  \cup
  {Tree(New, DirNode, sc, Old, DirNode, dc) :
     sc \in {New, DirNode},
     dc \in {NoNode, Old, DirNode, FileNode(MaxSize, MaxTime, "dst")}}

\* The trees of a whole run: between them the two pairs a and d/c show
\* each of the nine results of compare_files.
RunTrees ==
  { Tree(FileNode(1, 2, "src"), DirNode, FileNode(1, 2, "src"),
         FileNode(0, 1, "dst"), NoNode, NoNode),
    Tree(FileNode(0, 2, "src"), FileNode(0, 1, "src"), NoNode,
         FileNode(1, 1, "dst"), NoNode, NoNode),
    Tree(FileNode(1, 1, "src"), DirNode, NoNode,
         FileNode(0, 2, "dst"), DirNode, FileNode(0, 1, "dst")),
    Tree(FileNode(1, 1, "src"), DirNode, DirNode,
         FileNode(0, 1, "dst"), DirNode, NoNode),
    Tree(NoNode, DirNode, FileNode(1, 2, "src"),
         FileNode(0, 1, "dst"), DirNode, DirNode),
    Tree(FileNode(0, 1, "src"), DirNode, FileNode(1, 2, "src"),
         NoNode, FileNode(0, 1, "dst"), NoNode),
    Tree(DirNode, DirNode, FileNode(1, 2, "src"),
         DirNode, DirNode, FileNode(1, 1, "dst")) }

Init ==
  /\ fs \in RunTrees
  /\ fs0 = fs
  /\ stdin \in SeqsUpTo(Lines, MaxLines)
  /\ verbose \in BOOLEAN
  /\ dry_run \in BOOLEAN
  /\ a = <<>>
  /\ i = 0
  /\ n = 0
  /\ pc = "read"
  /\ run = 1
  /\ faults = 0
  /\ log = <<>>
  /\ out = <<>>
  /\ paths = <<>>
  /\ offset = 0
  /\ stack = <<>>
  /\ handles = 0
  /\ report = <<>>
  /\ unopened = {}
  /\ arg_path = <<>>
  /\ arg_width = 0
  /\ buffer = <<>>
  /\ arg_dir = <<>>
  /\ arg_rel = <<>>
  /\ abs = <<>>

Next ==
  \/ ReadLine
  \/ EndOfInput
  \/ ProcessFile
  \/ ProcessUnfilled
  \/ Crash
  \/ Finish
  \/ FinishCrash
  \/ Rerun

Spec == Init /\ [][Next]_vars

\* ------------------------------------------ one call of process_file alone
InitFile ==
  /\ fs \in PairTrees
  /\ fs0 = fs
  /\ stdin = <<>>
  /\ verbose \in BOOLEAN
  /\ dry_run \in BOOLEAN
  /\ a = <<>>
  /\ i = 0
  /\ n = 1
  /\ pc = "file"
  /\ run = 1
  /\ faults = 0
  /\ log = <<>>
  /\ out = <<>>
  /\ paths = <<>>
  /\ offset = 0
  /\ stack = <<>>
  /\ handles = 0
  /\ report = <<>>
  /\ unopened = {}
  /\ arg_path = <<>>
  /\ arg_width = 0
  /\ buffer = <<>>
  /\ arg_dir = <<>>
  /\ arg_rel = <<>>
  /\ abs = <<>>

FileCall ==
  /\ pc = "file"
  /\ i < n
  /\ \E path \in RelPaths, fail \in Fails : Call(path, TRUE, fail)

SpecFile == InitFile /\ [][FileCall]_vars

\* ------------------------------------------------------------ purge_files
STR_PURGE == "\nThe following files in DEST may need to be purged:"

\* The names readdir can return below the destination directory.
Names == {<<"a">>, <<"d">>, <<"c">>}
Dot == <<".">>
DotDot == <<".", ".">>

\* The entries of directory dst, "." and ".." among them.
entries(f, dst) ==
  {Dot, DotDot} \cup
  {nm \in Names : LET q == path_build(dst, nm) IN q \in DOMAIN f /\ f[q].kind # "none"}

\* d_type == DT_DIR
is_dir(f, dst, nm) == nm \in {Dot, DotDot} \/ f[path_build(dst, nm)].kind = "dir"

HasPrefix(p, r) == Len(p) >= Len(r) /\ SubSeq(p, 1, Len(r)) = r

\* plunge.c 406-418: a directory is in the list when some pathname of the
\* list begins with it and a separator, a file when one equals it.
in_list(ps, r, dir) ==
  IF dir THEN \E x \in 1..Len(ps) : HasPrefix(ps[x], r \o <<JB_PATH_SEPARATOR>>)
         ELSE \E x \in 1..Len(ps) : ps[x] = r

\* Mutant: a directory that is not known is walked like a known one.
purge_decision_walk(dir, listed, errno) ==
  IF ~listed /\ errno \notin {"OK", "ENOENT"} THEN "error"
  ELSE IF (listed \/ errno = "OK") /\ ~dir THEN "known"
  ELSE IF ~(listed \/ errno = "OK") /\ ~dir THEN "report"
  ELSE "recurse"

\* Mutant: a file of the list is reported when the source lacks it.
purge_decision_stat(dir, listed, errno) ==
  IF errno \notin {"OK", "ENOENT"} THEN "error"
  ELSE IF errno = "OK" /\ ~dir THEN "known"
  ELSE IF errno # "OK" /\ ~(dir /\ listed) THEN "report"
  ELSE "recurse"

\* plunge.c 420-446: what purge_file does with an entry other than "."
\* and "..", listed or not, whose source pathname stat answers with errno.
purge_decision(dir, listed, errno) ==
  IF ~listed /\ errno \notin {"OK", "ENOENT"} THEN "error"
  ELSE IF (listed \/ errno = "OK") /\ ~dir THEN "known"
  ELSE IF ~(listed \/ errno = "OK") THEN "report"
  ELSE "recurse"

purge_file(f, name, dir, src, dst, off, ps) ==
  LET r == path_build(src, name)
      s == path_build(dst, name)
      act == IF dir /\ name \in {Dot, DotDot} THEN "skip"
             ELSE purge_decision(dir, in_list(ps, r, dir), stat(f, r).errno)
  IN  [act  |-> act,
       line |-> IF act = "report"
                THEN path_output(SubSeq(s, off + 1, Len(s)), MAX_LINE_LENGTH)
                ELSE <<>>,
       src |-> r,
       dst |-> s]

\* plunge.c 182
purge_offset(q) == IF q[Len(q)] # JB_PATH_SEPARATOR THEN Len(q) + 1 ELSE Len(q)

Frame(src, dst, st, todo) == [src |-> src, dst |-> dst, st |-> st, todo |-> todo]
Top == stack[Len(stack)]
Pop == SubSeq(stack, 1, Len(stack) - 1)
SetTop(fr) == [stack EXCEPT ![Len(stack)] = fr]

syncVars == <<fs, fs0, stdin, verbose, dry_run, a, i, n, run, log>>

\* plunge.c 178-183: the banner, the source pathname of every line, the
\* offset, and the call of purge_files on the two roots.
PurgeStart ==
  /\ pc = "purge"
  /\ Top.st = "call"
  /\ out' = Append(out, <<STR_PURGE>>)
  /\ paths' = [x \in 1..n |-> path_build(Top.src, a[x])]
  /\ offset' = purge_offset(Top.dst)
  /\ stack' = SetTop([Top EXCEPT !.st = "open"])
  /\ UNCHANGED <<handles, report, faults, pc, unopened>>
  /\ UNCHANGED syncVars
  /\ UNCHANGED pathVars
  /\ UNCHANGED buildVars

\* plunge.c 353: opendir gives a handle on the destination directory ...
PurgeOpen ==
  /\ pc = "purge"
  /\ Top.st = "open"
  /\ handles' = handles + 1
  /\ stack' = SetTop([Top EXCEPT !.st = "read", !.todo = entries(fs, Top.dst)])
  /\ UNCHANGED <<paths, offset, report, faults, pc, out, unopened>>
  /\ UNCHANGED syncVars
  /\ UNCHANGED pathVars
  /\ UNCHANGED buildVars

\* A failed opendir that ends the whole scan.
PurgeOpenFails_abort ==
  /\ pc = "purge"
  /\ Top.st = "open"
  /\ faults < MaxFaults
  /\ faults' = faults + 1
  /\ unopened' = unopened \cup {Top.dst}
  /\ stack' = <<>>
  /\ pc' = "exit"
  /\ handles' = 0
  /\ UNCHANGED <<paths, offset, report, out>>
  /\ UNCHANGED syncVars
  /\ UNCHANGED pathVars
  /\ UNCHANGED buildVars

\* ... or fails, and purge_files returns after perror.
PurgeOpenFails ==
  /\ pc = "purge"
  /\ Top.st = "open"
  /\ faults < MaxFaults
  /\ faults' = faults + 1
  /\ stack' = Pop
  /\ pc' = IF Len(stack) = 1 THEN "exit" ELSE pc
  /\ unopened' = unopened \cup {Top.dst}
  /\ UNCHANGED <<paths, offset, report, handles, out>>
  /\ UNCHANGED syncVars
  /\ UNCHANGED pathVars
  /\ UNCHANGED buildVars

\* plunge.c 354-369: readdir returns some entry not yet returned, and
\* purge_file skips it, prints it or calls purge_files on it.
PurgeEntry ==
  /\ pc = "purge"
  /\ Top.st = "read"
  /\ \E nm \in Top.todo :
       \E d \in {purge_file(fs, nm, is_dir(fs, Top.dst, nm), Top.src, Top.dst,
                            offset, paths)} :
         LET rest == SetTop([Top EXCEPT !.todo = Top.todo \ {nm}]) IN
         /\ report' = IF d.act = "report" THEN Append(report, d.line) ELSE report
         /\ stack' = IF d.act = "recurse"
                     THEN Append(rest, Frame(d.src, d.dst, "open", {}))
                     ELSE rest
  /\ UNCHANGED <<paths, offset, handles, faults, pc, out, unopened>>
  /\ UNCHANGED syncVars
  /\ UNCHANGED pathVars
  /\ UNCHANGED buildVars

\* A return from purge_files that leaves the directory open.
PurgeClose_leak ==
  /\ pc = "purge"
  /\ Top.st = "read"
  /\ Top.todo = {}
  /\ stack' = Pop
  /\ pc' = IF Len(stack) = 1 THEN "exit" ELSE pc
  /\ UNCHANGED <<paths, offset, report, faults, out, unopened, handles>>
  /\ UNCHANGED syncVars
  /\ UNCHANGED pathVars
  /\ UNCHANGED buildVars

\* plunge.c 380: readdir returns NULL, closedir, and purge_files returns.
PurgeClose ==
  /\ pc = "purge"
  /\ Top.st = "read"
  /\ Top.todo = {}
  /\ handles' = handles - 1
  /\ stack' = Pop
  /\ pc' = IF Len(stack) = 1 THEN "exit" ELSE pc
  /\ UNCHANGED <<paths, offset, report, faults, out, unopened>>
  /\ UNCHANGED syncVars
  /\ UNCHANGED pathVars
  /\ UNCHANGED buildVars

Kinds(d) == {NoNode, FileNode(0, 1, d)}

\* The trees of a purge: a is a file or missing, d a file, a directory or
\* missing, and d/c a file or missing below a directory d.
PurgeTrees ==
  {Tree(sa, sd, sc, da, dd, dc) :
     sa \in Kinds("src"), sd \in Kinds("src") \cup {DirNode}, sc \in Kinds("src"),
     da \in Kinds("dst"), dd \in Kinds("dst") \cup {DirNode}, dc \in Kinds("dst")}

WellFormed(f) ==
  \A q \in DOMAIN f : f[q].kind # "none" => stat(f, q).errno = "OK"

\* The two roots as given on the command line, without and with a
\* trailing separator.
Roots == {<<SrcRoot, DstRoot>>,
          <<SrcRoot \o <<JB_PATH_SEPARATOR>>, DstRoot \o <<JB_PATH_SEPARATOR>> >>}

InitPurge ==
  /\ fs \in {f \in PurgeTrees : WellFormed(f)}
  /\ fs0 = fs
  /\ stdin = <<>>
  /\ verbose = FALSE
  /\ dry_run = FALSE
  /\ a \in SeqsUpTo(RelPaths \cup {RelZ}, MaxLines) \ {<<>>}
  /\ i = Len(a)
  /\ n = Len(a)
  /\ pc = "purge"
  /\ run = 1
  /\ faults = 0
  /\ log = <<>>
  /\ out = <<>>
  /\ paths = <<>>
  /\ offset = 0
  /\ \E rt \in Roots : stack = <<Frame(rt[1], rt[2], "call", {})>>
  /\ handles = 0
  /\ report = <<>>
  /\ unopened = {}
  /\ arg_path = <<>>
  /\ arg_width = 0
  /\ buffer = <<>>
  /\ arg_dir = <<>>
  /\ arg_rel = <<>>
  /\ abs = <<>>

NextPurge ==
  \/ PurgeStart
  \/ PurgeOpen
  \/ PurgeOpenFails
  \/ PurgeEntry
  \/ PurgeClose

SpecPurge == InitPurge /\ [][NextPurge]_vars

\* ------------------------------------------------- a whole run with -p
\* The lines of standard input that name a file.
PathLines == {ln \in Lines : Len(jb_trim(ln)) >= 1}

\* A tree with a file to copy and a file that only the destination has.
OrphanTree ==
  Tree(NoNode, DirNode, FileNode(1, 2, "src"),
       FileNode(0, 1, "dst"), DirNode, FileNode(0, 1, "dst"))

\* plunge.c 173-183: the loop is over and the purge option is present.
FinishToPurge ==
  /\ pc = "process"
  /\ i = n
  /\ AllSlotsFilled
  /\ pc' = "purge"
  /\ stack' = <<Frame(SrcRoot, DstRoot, "call", {})>>
  /\ UNCHANGED <<paths, offset, handles, report, faults, out, unopened>>
  /\ UNCHANGED syncVars
  /\ UNCHANGED pathVars
  /\ UNCHANGED buildVars

InitWhole ==
  /\ fs \in RunTrees \cup {OrphanTree}
  /\ fs0 = fs
  /\ stdin \in SeqsUpTo(PathLines, MaxLines)
  /\ verbose \in BOOLEAN
  /\ dry_run \in BOOLEAN
  /\ a = <<>>
  /\ i = 0
  /\ n = 0
  /\ pc = "read"
  /\ run = 1
  /\ faults = 0
  /\ log = <<>>
  /\ out = <<>>
  /\ paths = <<>>
  /\ offset = 0
  /\ stack = <<>>
  /\ handles = 0
  /\ report = <<>>
  /\ unopened = {}
  /\ arg_path = <<>>
  /\ arg_width = 0
  /\ buffer = <<>>
  /\ arg_dir = <<>>
  /\ arg_rel = <<>>
  /\ abs = <<>>

NextWhole ==
  \/ ReadLine
  \/ EndOfInput
  \/ ProcessFile
  \/ FinishToPurge
  \/ PurgeStart
  \/ PurgeOpen
  \/ PurgeOpenFails
  \/ PurgeEntry
  \/ PurgeClose

SpecWhole == InitWhole /\ [][NextWhole]_vars

\* ------------------------------------------------------- path_build alone
\* The longest directory and relative pathnames handed to path_build.
MaxDirLen == 3
MaxRelLen == 3

\* Directory pathnames, with and without separators at their ends, and
\* relative pathnames, which do not begin with a separator.
DirNames ==
  UNION {[1..k -> {JB_PATH_SEPARATOR, "s"}] : k \in 1..MaxDirLen}
RelNames ==
  {r \in UNION {[1..k -> {JB_PATH_SEPARATOR, "a", "."}] : k \in 1..MaxRelLen} :
     r[1] # JB_PATH_SEPARATOR}

PathBuild ==
  /\ pc = "build"
  /\ abs' = path_build(arg_dir, arg_rel)
  /\ pc' = "built"
  /\ UNCHANGED <<arg_dir, arg_rel, faults, out>>
  /\ UNCHANGED purgeVars
  /\ UNCHANGED syncVars
  /\ UNCHANGED pathVars

InitBuild ==
  /\ fs = [q \in Nodes |-> NoNode]
  /\ fs0 = fs
  /\ stdin = <<>>
  /\ verbose = FALSE
  /\ dry_run = FALSE
  /\ a = <<>>
  /\ i = 0
  /\ n = 0
  /\ pc = "build"
  /\ run = 1
  /\ faults = 0
  /\ log = <<>>
  /\ out = <<>>
  /\ paths = <<>>
  /\ offset = 0
  /\ stack = <<>>
  /\ handles = 0
  /\ report = <<>>
  /\ unopened = {}
  /\ arg_path = <<>>
  /\ arg_width = 0
  /\ buffer = <<>>
  /\ arg_dir \in DirNames
  /\ arg_rel \in RelNames
  /\ abs = <<>>

SpecBuild == InitBuild /\ [][PathBuild]_vars

\* ------------------------------------------------------ path_output alone
\* The longest pathname handed to path_output.
MaxPathLen == 80

\* The field widths of the program: process_file's k and j, purge_file's.
Widths == {MAX_LINE_LENGTH - 26, MAX_LINE_LENGTH - 18, MAX_LINE_LENGTH}

\* The bytes of s that path_output writes, the terminating null included:
\* they are s[0] up to s[n], n as it stands at the statement s[n] = '\0'.
path_output_extent(path, width) ==
  LET m  == IF width < MAX_LINE_LENGTH THEN width - 3 ELSE width
      n0 == IF Len(path) > m THEN m ELSE Len(path)
      n1 == IF m < width THEN (IF n0 < width THEN width ELSE n0) ELSE n0 + 1
  IN  n1 + 1

\* Pathnames of every length whose characters differ from their neighbours,
\* with separators at up to two places counted from either end.
Glyphs == <<"a", "b", "c", "e", "f", "g", "h">>
SepFromStart == {2, 7, 8}
SepFromEnd == {0, 4, 43, 44, 51, 52, 72, 73}
SepSets(len) ==
  LET P == {k \in SepFromStart : k < len} \cup {len - d : d \in {x \in SepFromEnd : x < len - 1}}
  IN  {S \in SUBSET P : Cardinality(S) <= 2}
TestPath(len, S) ==
  [k \in 1..len |-> IF k \in S THEN JB_PATH_SEPARATOR ELSE Glyphs[(k % 7) + 1]]

\* path_output when every byte it writes lies inside s.
PathOutput ==
  /\ pc = "format"
  /\ path_output_extent(arg_path, arg_width) <= MAX_LINE_LENGTH
  /\ buffer' = path_output(arg_path, arg_width)
  /\ pc' = "printed"
  /\ UNCHANGED <<arg_path, arg_width, faults, out>>
  /\ UNCHANGED buildVars
  /\ UNCHANGED purgeVars
  /\ UNCHANGED syncVars

\* path_output when it writes past the end of s: the process is stopped,
\* or the bytes land in unused stack and the line is printed, or they land
\* in a neighbouring variable and printf runs on past the line.
PathOutputOverrun ==
  /\ pc = "format"
  /\ path_output_extent(arg_path, arg_width) > MAX_LINE_LENGTH
  /\ \/ pc' = "crashed" /\ buffer' = <<>>
     \/ pc' = "printed" /\ buffer' = path_output(arg_path, arg_width)
     \/ pc' = "printed" /\ buffer' = path_output(arg_path, arg_width) \o Uninit
  /\ UNCHANGED <<arg_path, arg_width, faults, out>>
  /\ UNCHANGED buildVars
  /\ UNCHANGED purgeVars
  /\ UNCHANGED syncVars

InitPath ==
  /\ fs = [q \in Nodes |-> NoNode]
  /\ fs0 = fs
  /\ stdin = <<>>
  /\ verbose = FALSE
  /\ dry_run = FALSE
  /\ a = <<>>
  /\ i = 0
  /\ n = 0
  /\ pc = "format"
  /\ run = 1
  /\ faults = 0
  /\ log = <<>>
  /\ out = <<>>
  /\ paths = <<>>
  /\ offset = 0
  /\ stack = <<>>
  /\ handles = 0
  /\ report = <<>>
  /\ unopened = {}
  /\ arg_width \in Widths
  /\ \E len \in 1..MaxPathLen : \E S \in SepSets(len) : arg_path = TestPath(len, S)
  /\ buffer = <<>>
  /\ arg_dir = <<>>
  /\ arg_rel = <<>>
  /\ abs = <<>>

NextPath ==
  \/ PathOutput
  \/ PathOutputOverrun

SpecPath == InitPath /\ [][NextPath]_vars

\* ---------------------------------------------------------------- claims
Entries == {log[k] : k \in 1..Len(log)}
SrcIsFile(e) == e.src.errno = "OK" /\ e.src.node.kind = "file"
DstIsFile(e) == e.dst.errno = "OK" /\ e.dst.node.kind = "file"
BothFiles(e) == SrcIsFile(e) /\ DstIsFile(e)
Copying == {"DST_NO_EXIST", "SRC_LARGER", "SRC_NEWER"}
Results == {"ERROR", "SRC_NO_EXIST", "SRC_NOT_FILE", "DST_NO_EXIST", "DST_NOT_FILE",
            "SAME_AGE", "DST_NEWER", "SRC_LARGER", "SRC_NEWER"}
\* The destination file holds what the source held when it was compared.
Mirrors(e) ==
  /\ e.after.errno = "OK"
  /\ e.after.node = FileNode(e.src.node.size, e.src.node.mtime, e.src.node.data)

\* C1: when the destination is a regular file with a greater mtime than the
\* source file's, compare_files returns DST_NEWER whatever the sizes, and
\* process_file does not call copy_file: the destination tree is unchanged.
C1_DstNewerKept ==
  \A e \in Entries :
    (BothFiles(e) /\ e.dst.node.mtime > e.src.node.mtime) =>
      /\ e.result = "DST_NEWER"
      /\ ~e.called
      /\ e.kept
      /\ e.after = e.dst

C1_Witness ==
  \E e \in Entries :
    /\ BothFiles(e)
    /\ e.dst.node.mtime > e.src.node.mtime
    /\ e.src.node.size > e.dst.node.size
    /\ ~dry_run
    /\ e.result = "DST_NEWER"

\* C2: when both are regular files with equal mtimes, compare_files returns
\* SAME_AGE whatever the sizes, and process_file does not copy.
C2_SameAgeSkipped ==
  \A e \in Entries :
    (BothFiles(e) /\ e.dst.node.mtime = e.src.node.mtime) =>
      /\ e.result = "SAME_AGE"
      /\ ~e.called
      /\ e.kept

C2_Witness ==
  \E e \in Entries :
    /\ BothFiles(e)
    /\ e.dst.node.mtime = e.src.node.mtime
    /\ e.src.node.size # e.dst.node.size
    /\ ~dry_run
    /\ e.result = "SAME_AGE"

\* C3: when both are regular files and the source's mtime is greater, the
\* result is SRC_LARGER exactly when the source is strictly larger and
\* SRC_NEWER otherwise, and in both cases copy_file is called when dry-run
\* is off (and, unless the environment fails it, leaves the destination
\* holding the source's bytes and mtime).
C3_SrcNewerCopied ==
  \A e \in Entries :
    (BothFiles(e) /\ e.src.node.mtime > e.dst.node.mtime) =>
      /\ e.result = (IF e.src.node.size > e.dst.node.size
                     THEN "SRC_LARGER" ELSE "SRC_NEWER")
      /\ e.called = ~dry_run
      /\ (e.called /\ ~e.faulted) => (e.ok /\ Mirrors(e))

C3_Witness ==
  \E e \in Entries :
    /\ BothFiles(e)
    /\ e.src.node.mtime > e.dst.node.mtime
    /\ e.src.node.size = e.dst.node.size
    /\ e.result = "SRC_NEWER"
    /\ e.ok

\* C4: when the source is a regular file and the destination does not
\* exist, the result is DST_NO_EXIST and, with dry-run off, copy_file is
\* called whatever the source's size.
C4_MissingDstCopied ==
  \A e \in Entries :
    (SrcIsFile(e) /\ e.dst.errno = "ENOENT") =>
      /\ e.result = "DST_NO_EXIST"
      /\ e.called = ~dry_run
      /\ (e.called /\ ~e.faulted) => (e.ok /\ Mirrors(e))

C4_Witness ==
  \E e \in Entries :
    /\ SrcIsFile(e)
    /\ e.dst.errno = "ENOENT"
    /\ e.src.node.size = 0
    /\ e.result = "DST_NO_EXIST"
    /\ e.ok

\* C5: once copy_file has succeeded for a pair (read, directories, write
\* and utime all succeeded), every later comparison of that pair, in the
\* same run or in the second run, returns SAME_AGE and copies nothing
\* (the source is never written); and a second run over a list whose
\* copies all succeeded in the first run calls copy_file for no line.
C5_Idempotent ==
  /\ SrcTree(fs) = SrcTree(fs0)
  /\ \A j \in 1..Len(log) : \A k \in (j + 1)..Len(log) :
       (log[j].ok /\ log[k].path = log[j].path) =>
         (log[k].result = "SAME_AGE" /\ ~log[k].called /\ log[k].kept)
  /\ (\A e \in Entries : e.filled /\ (e.run = 1 /\ e.called => e.ok)) =>
       (\A e \in Entries : e.run = 2 => ~e.called)

C5_Witness ==
  \E j \in 1..Len(log) : \E k \in (j + 1)..Len(log) :
    /\ log[j].ok
    /\ log[j].run = 1
    /\ log[k].run = 2
    /\ log[k].path = log[j].path
    /\ log[k].result = "SAME_AGE"
    /\ pc = "exit"

\* C6: with the dry-run flag set the filesystem stays what it was before
\* the first run: no destination file changes size, content or mtime, and
\* no file or directory is created, whatever the results are.
C6_DryRunFrame ==
  dry_run => (DOMAIN fs = DOMAIN fs0 /\ DstTree(fs) = DstTree(fs0))

C6_Witness ==
  /\ dry_run
  /\ pc = "exit"
  /\ \E e \in Entries : e.result = "DST_NO_EXIST" /\ e.path = RelDC
  /\ \E e \in Entries : e.result = "SRC_LARGER"
  /\ fs = fs0

\* C9: process_file prints a status line exactly when the verbose flag is
\* set or the result is a copying one, one line per call, and whether it
\* calls copy_file depends on the result and on dry-run only.
C9_StatusLines ==
  /\ \A e \in Entries :
       /\ e.result \in Results
       /\ e.printed = (verbose \/ e.result \in Copying)
       /\ e.called = (e.result \in Copying /\ ~dry_run)
  /\ Len(out) = Cardinality({k \in 1..Len(log) : log[k].printed})

C9_Witness ==
  \E e \in Entries : verbose /\ e.result = "ERROR" /\ e.printed /\ ~e.called

\* The pathnames of the lines of standard input that are not blank.
RECURSIVE NonBlank(_)
NonBlank(ls) ==
  IF ls = <<>> THEN <<>>
  ELSE LET p == jb_trim(Head(ls)) IN
       (IF Len(p) < 1 THEN <<>> ELSE <<p>>) \o NonBlank(Tail(ls))

Passed(r) == LET S == SelectSeq(log, LAMBDA e : e.run = r)
             IN  [k \in 1..Len(S) |-> S[k].path]

IsPrefix(s, t) == Len(s) <= Len(t) /\ s = SubSeq(t, 1, Len(s))

\* C10: blank lines are ignored: in each run main calls process_file once
\* per line that is not blank, in input order, with the trimmed line, and
\* never for a slot that no such line filled.
C10_BlankLinesIgnored ==
  /\ pc # "crashed"
  /\ \A e \in Entries : e.filled
  /\ \A r \in 1..run :
       /\ IsPrefix(Passed(r), NonBlank(stdin))
       /\ (r < run \/ pc = "exit") => Passed(r) = NonBlank(stdin)

\* ------------------------------------------------------- claims on purge
\* The destination entries, by the pathname relative to DEST.
DstEntries == {q \in DstNodes : fs[q].kind # "none"}
RelOf(q) == SubSeq(q, Len(DstRoot) + 2, Len(q))
Mapped(q) == SrcRoot \o <<JB_PATH_SEPARATOR>> \o RelOf(q)
Beneath(q, p) == Len(q) > Len(p) + 1 /\ SubSeq(q, 1, Len(p) + 1) = p \o <<JB_PATH_SEPARATOR>>

\* The pathnames printed, each line without its newline.
Printed == {SubSeq(report[k], 1, Len(report[k]) - 1) : k \in 1..Len(report)}
Input == {a[k] : k \in 1..Len(a)}

Absent(q) == stat(fs, Mapped(q)).errno # "OK"
Listed(q) ==
  IF fs[q].kind = "dir" THEN \E x \in Input : Beneath(x, RelOf(q))
                        ELSE RelOf(q) \in Input
Known(q) == Listed(q) \/ stat(fs, Mapped(q)).errno = "OK"
Unknown(q) == ~Listed(q) /\ stat(fs, Mapped(q)).errno = "ENOENT"
Reached(q) == \A p \in DstEntries : Beneath(q, p) => (fs[p].kind = "dir" /\ Known(p))
Expected == {RelOf(q) : q \in {x \in DstEntries : Reached(x) /\ Unknown(x)}}

C8_AsStated ==
  \A q \in DstEntries : fs[q].kind = "dir" => RelOf(q) \notin Printed

\* C8: no line is printed for a destination directory that is known: it is
\* walked, and only unknown entries beneath it are printed. A directory
\* that is unknown is printed as one line and is not walked: no call of
\* purge_files is made on it and nothing beneath it is printed.
C8_KnownDirsNotPrinted ==
  /\ \A q \in DstEntries :
       fs[q].kind = "dir" =>
         /\ Known(q) => RelOf(q) \notin Printed
         /\ RelOf(q) \in Printed =>
              /\ Unknown(q)
              /\ \A x \in DstEntries : Beneath(x, q) => RelOf(x) \notin Printed
         /\ Unknown(q) => \A k \in 1..Len(stack) : stack[k].dst # q
  /\ \A l \in Printed : \E q \in DstEntries : RelOf(q) = l /\ Unknown(q)

C8_Witness ==
  /\ pc = "exit"
  /\ faults = 0
  /\ \E q \in DstEntries :
       /\ fs[q].kind = "dir"
       /\ Known(q)
       /\ RelOf(q) \notin Printed
       /\ \E x \in DstEntries : Beneath(x, q) /\ RelOf(x) \in Printed

\* ------------------------------------------------ claims about path_output
Room(width) == IF width < MAX_LINE_LENGTH THEN width - 3 ELSE width
NeedsElision == Len(arg_path) > Room(arg_width)
\* The line without the newline that ends it in the widest field.
Field ==
  IF buffer # <<>> /\ buffer[Len(buffer)] = NL
  THEN SubSeq(buffer, 1, Len(buffer) - 1) ELSE buffer
\* The place (from 1) of the last separator of the pathname, 0 without one.
LastSep ==
  LET S == {t \in 1..Len(arg_path) : arg_path[t] = JB_PATH_SEPARATOR}
  IN  IF S = {} THEN 0 ELSE SetMax(S)
Dots == <<".", ".", ".">>

\* C11 as stated: an elided field is width characters long and is a
\* leading part of the path, a run of dots and a tail of the path that
\* starts at a separator (with the padding of a narrow field after it).
C11_AsStated ==
  (pc = "printed" /\ NeedsElision) =>
    /\ Len(Field) = arg_width
    /\ \E t \in 1..Len(arg_path) :
         /\ arg_path[t] = JB_PATH_SEPARATOR
         /\ \E p \in 0..(t - 1), d \in 1..arg_width :
              Field = SubSeq(arg_path, 1, p) \o Fill(".", d)
                        \o SubSeq(arg_path, t, Len(arg_path))
                        \o Leader(Room(arg_width), arg_width)

\* C11: in a field narrower than the line, an elided field is width
\* characters long: a leading part of the path of at least three
\* characters, three dots, a tail of the path and the padding " . ". The
\* tail starts at the last separator of the path when that separator is
\* past the seventh character and the tail is then no longer than
\* width - 9; otherwise the tail is the last width - 9 characters.
C11_Elision ==
  (pc = "printed" /\ NeedsElision /\ arg_width < MAX_LINE_LENGTH) =>
    /\ Len(buffer) = arg_width
    /\ \E t \in 1..Len(arg_path) :
         LET tail == SubSeq(arg_path, t, Len(arg_path))
             lead == SubSeq(arg_path, 1, arg_width - 6 - Len(tail))
         IN  /\ buffer = lead \o Dots \o tail \o <<" ", ".", " ">>
             /\ Len(lead) >= 3
             /\ Len(lead) + 3 < t
             /\ IF LastSep >= 8 /\ Len(arg_path) - LastSep + 1 <= arg_width - 9
                THEN t = LastSep
                ELSE Len(tail) = arg_width - 9

C11_Witness ==
  /\ pc = "printed"
  /\ NeedsElision
  /\ arg_width < MAX_LINE_LENGTH
  /\ LastSep >= 8
  /\ Len(arg_path) - LastSep + 1 > arg_width - 9
  /\ buffer[Len(buffer) - 3 - (arg_width - 9) + 1] # JB_PATH_SEPARATOR

\* C12: in a field narrower than the line, a path of at most width - 3
\* characters is printed unchanged and padded to exactly width characters;
\* the padding has a dot at column c (from 0) exactly when width - c is
\* even, whatever the length of the path, and the last column is a space.
C12_DotLeader ==
  (pc = "printed" /\ arg_width < MAX_LINE_LENGTH /\ ~NeedsElision) =>
    /\ Len(buffer) = arg_width
    /\ SubSeq(buffer, 1, Len(arg_path)) = arg_path
    /\ \A c \in Len(arg_path)..(arg_width - 1) :
         buffer[c + 1] = (IF (arg_width - c) % 2 = 0 THEN "." ELSE " ")
    /\ buffer[arg_width] = " "

C12_Witness ==
  /\ pc = "printed"
  /\ arg_width < MAX_LINE_LENGTH
  /\ Len(arg_path) = arg_width - 3
  /\ SubSeq(buffer, arg_width - 2, arg_width) = <<" ", ".", " ">>

\* C20: every byte path_output writes lies inside the MAX_LINE_LENGTH bytes
\* of s, for every path and each width of the program; so no call ends in
\* a stopped process or in a line other than the one computed.
C20_InsideBuffer ==
  /\ path_output_extent(arg_path, arg_width) <= MAX_LINE_LENGTH
  /\ pc # "crashed"
  /\ pc = "printed" => buffer = path_output(arg_path, arg_width)

\* ------------------------------------------------- claims about the batch
\* The calls of process_file of the current run, in the order made.
ThisRun == SelectSeq(log, LAMBDA e : e.run = run)
InLoop == pc = "process" \/ (pc \in {"exit", "crashed"} /\ a # <<>>)

\* C13: a failed comparison or copy changes nothing in what main does
\* next: inside the loop of a run the calls made are those of slots 0 to
\* i - 1, one call each and in that order, whether or not calls among
\* them have failed; each call of a slot that a line filled is for that
\* line, and copy_file is called in it exactly when its own result asks
\* for a copy and dry-run is off; the program stops early only at a slot
\* that no line filled, and otherwise ends with every slot processed.
C13_FailureIsLocal ==
  /\ InLoop =>
       /\ Len(ThisRun) = i
       /\ \A k \in 1..Len(ThisRun) :
            /\ ThisRun[k].slot = k - 1
            /\ ThisRun[k].filled => ThisRun[k].path = a[k]
            /\ ThisRun[k].called = (ThisRun[k].result \in Copying /\ ~dry_run)
            /\ ThisRun[k].faulted => ThisRun[k].called /\ ~ThisRun[k].ok
  /\ pc = "crashed" => ~AllSlotsFilled
  /\ (pc = "exit" /\ a # <<>>) => i = n

C13_Witness ==
  /\ pc = "exit"
  /\ AllSlotsFilled
  /\ Len(ThisRun) = 2
  /\ ThisRun[1].faulted
  /\ ThisRun[2].called
  /\ ThisRun[2].ok
  /\ ThisRun[2].after.errno = "OK"

\* C14: in a whole run only copy_file changes the filesystem: a step that
\* changes it is a call of process_file in which copy_file is called; no
\* step of the purge scan changes it; no step changes the source tree;
\* and no step removes a file or directory or turns one into the other.
C14_OnlyCopyWrites ==
  [][/\ SrcTree(fs') = SrcTree(fs)
     /\ \A q \in DOMAIN fs :
          /\ q \in DOMAIN fs'
          /\ fs[q].kind # "none" => fs'[q].kind = fs[q].kind
     /\ fs' # fs => (Len(log') = Len(log) + 1 /\ log'[Len(log')].called)
     /\ pc = "purge" => fs' = fs]_vars

C14_Witness ==
  /\ pc = "exit"
  /\ fs # fs0
  /\ \E e \in Entries : e.called /\ e.ok /\ ~e.kept
  /\ \E e \in Entries : ~e.called /\ e.kept
  /\ report # <<>>

\* ------------------------------------------------ claims about path_build
SepCount(s) == Cardinality({k \in 1..Len(s) : s[k] = JB_PATH_SEPARATOR})
EndsInSep(s) == s[Len(s)] = JB_PATH_SEPARATOR

\* C15: the pathname built begins with the directory and ends with the
\* relative pathname, both unchanged, with one separator between them when
\* the directory does not end in a separator and nothing between them when
\* it does; so the relative pathname is preceded by a separator in either
\* case, and the separators of the result are those of the two arguments
\* and the one inserted.
C15_OneSeparator ==
  pc = "built" =>
    LET ins == IF EndsInSep(arg_dir) THEN 0 ELSE 1 IN
    /\ Len(abs) = Len(arg_dir) + ins + Len(arg_rel)
    /\ SubSeq(abs, 1, Len(arg_dir)) = arg_dir
    /\ SubSeq(abs, Len(abs) - Len(arg_rel) + 1, Len(abs)) = arg_rel
    /\ abs[Len(abs) - Len(arg_rel)] = JB_PATH_SEPARATOR
    /\ SepCount(abs) = SepCount(arg_dir) + ins + SepCount(arg_rel)
    /\ ~EndsInSep(arg_dir) =>
         /\ abs[Len(arg_dir)] # JB_PATH_SEPARATOR
         /\ abs[Len(arg_dir) + 2] # JB_PATH_SEPARATOR

C15_Witness ==
  /\ pc = "built"
  /\ EndsInSep(arg_dir)
  /\ Len(arg_dir) > 1
  /\ Len(abs) = Len(arg_dir) + Len(arg_rel)
  /\ SepCount(arg_rel) > 0

\* ------------------------------------------------- claims about copy_file
\* C16: a call of copy_file whose jb_file_read fails (the source does not
\* open or yields fewer than size bytes) leaves the whole filesystem as it
\* was: no directory is made, the destination file is neither created nor
\* truncated, and its content and mtime stay.
C16_ReadBeforeWrite ==
  \A e \in Entries :
    (e.called /\ ~e.read) =>
      /\ ~e.ok
      /\ e.kept
      /\ e.after = e.dst
      /\ fs = fs0

C16_Witness ==
  \E e \in Entries :
    /\ e.called
    /\ ~e.read
    /\ e.path = RelDC
    /\ e.result = "DST_NO_EXIST"
    /\ fs[path_build(DstRoot, RelD)].kind = "none"

\* --------------------------------------------------- claims about order
\* The pathnames of the calls of this run made for slots that lines filled.
FilledPaths ==
  LET S == SelectSeq(ThisRun, LAMBDA e : e.filled)
  IN  [k \in 1..Len(S) |-> S[k].path]
\* The status lines printed (the headings are single strings).
StatusLines == SelectSeq(out, LAMBDA l : Len(l) = 2)
PrintedCalls == SelectSeq(log, LAMBDA e : e.printed)
SamePathBetween(j, k) == \E m \in (j + 1)..(k - 1) : log[m].path = log[j].path

\* C17: files are processed one at a time and in input order. Each call of
\* process_file is one more record and compares the files as they are
\* when it is made, that is, as all earlier calls and their copies left
\* them, and its own copy is over before the next call; the calls made for
\* lines are in the order of the lines; the status lines are those of the
\* calls that printed, in the order of the calls; and a pathname listed
\* twice is compared at each occurrence, the later one finding the
\* destination as the earlier one left it.
C17_InOrder ==
  /\ [](/\ InLoop => IsPrefix(FilledPaths, NonBlank(stdin))
        /\ Len(StatusLines) = Len(PrintedCalls)
        /\ \A m \in 1..Len(StatusLines) :
             IsPrefix(PrintedCalls[m].path, StatusLines[m][1])
        /\ \A j \in 1..Len(log) : \A k \in (j + 1)..Len(log) :
             (log[k].path = log[j].path /\ ~SamePathBetween(j, k)) =>
               log[k].dst = log[j].after)
  /\ [][/\ IsPrefix(log, log')
        /\ IsPrefix(out, out')
        /\ Len(log') <= Len(log) + 1
        /\ Len(log') = Len(log) + 1 =>
             LET e == log'[Len(log')] IN
             /\ e.slot = i
             /\ i' = i + 1
             /\ e.src = stat(fs, path_build(SrcRoot, e.path))
             /\ e.dst = stat(fs, path_build(DstRoot, e.path))
             /\ e.after = stat(fs', path_build(DstRoot, e.path))
        /\ fs' # fs => Len(log') = Len(log) + 1]_vars

C17_Witness ==
  /\ pc = "exit"
  /\ run = 1
  /\ AllSlotsFilled
  /\ Len(log) = 2
  /\ log[1].path = log[2].path
  /\ log[1].called
  /\ log[1].ok
  /\ log[2].result = "SAME_AGE"
  /\ log[2].dst = log[1].after
  /\ Len(StatusLines) = 2

\* ------------------------------------------ claims on failures in purge
\* The destination entries lying in a directory that opendir failed on.
Cut(q) ==
  \E p \in unopened :
    \/ p \in {DstRoot, DstRoot \o <<JB_PATH_SEPARATOR>>}
    \/ Beneath(q, p)
Uncut == {RelOf(q) : q \in {x \in DstEntries : Reached(x) /\ Unknown(x) /\ ~Cut(x)}}

\* C18: a directory that opendir fails on costs the report its subtree
\* only: no entry beneath it is ever printed, a line once printed stays,
\* and when the scan has returned the lines are those of every unknown
\* entry reached through known directories that is not beneath a
\* directory that failed to open.
C18_SubtreeOnly ==
  /\ [](/\ Printed \subseteq Uncut
        /\ pc = "exit" => Printed = Uncut)
  /\ [][IsPrefix(report, report')]_vars

C18_Witness ==
  /\ pc = "exit"
  /\ unopened = {path_build(DstRoot, RelD)}
  /\ Printed = {RelA}
  /\ \E q \in DstEntries : RelOf(q) = RelDC /\ Reached(q) /\ Unknown(q)

\* C19: the directory handles open are those of the calls of purge_files
\* that have opened their directory and not yet returned: one for each
\* call on the stack, but for a call at the top that has not yet reached
\* or has failed its opendir; none is open once the scan has returned.
C19_HandlesBalanced ==
  /\ handles = Cardinality({k \in 1..Len(stack) : stack[k].st = "read"})
  /\ \A k \in 1..(Len(stack) - 1) : stack[k].st = "read"
  /\ handles \in {Len(stack), Len(stack) - 1}
  /\ pc = "exit" => (handles = 0 /\ stack = <<>>)

C19_Witness ==
  /\ pc = "purge"
  /\ handles = 2
  /\ Len(stack) = 2
  /\ Top.st = "read"
  /\ Top.todo = {}
  /\ fs[path_build(DstRoot, RelDC)].kind # "none"
  /\ stat(fs, path_build(SrcRoot, RelDC)).errno = "ENOTDIR"
====
